---------------------------- MODULE Spec2Model ----------------------------
(***************************************************************************)
(* A model of tty-driver (src/src/lib.rs): resolving the terminal device   *)
(* path of a process from /proc/<pid>/stat, /proc/tty/drivers and the      *)
(* device nodes under /dev.                                                *)
(*                                                                         *)
(* Text is modelled as sequences of one-character strings, so splitting,   *)
(* integer parsing and formatting are computed character by character.     *)
(* An Option is a sequence of length 0 (None) or 1 (Some).                 *)
(***************************************************************************)
EXTENDS Integers, Sequences, FiniteSets, TLC

VARIABLES
    procStat,     \* pid -> Option(text): /proc/<pid>/stat, None when unreadable
    driversFile,  \* Option(sequence of lines): /proc/tty/drivers
    devNodes,     \* normalised path -> Option(rdev): the device nodes
    calls,        \* call id -> the locals of one find_tty_for_pid call
    uPc,          \* position of the single-function harness
    uIn,          \* its input
    uOut          \* its output

vars == <<procStat, driversFile, devNodes, calls, uPc, uIn, uOut>>

envVars == <<procStat, driversFile, devNodes>>

unitVars == <<uPc, uIn, uOut>>

------------------------------------------------------------------------------
(* Options *)

None == <<>>

Some(x) == <<x>>

IsSome(o) == o # <<>>

Get(o) == o[1]

------------------------------------------------------------------------------
(* i32 and text primitives of the Rust standard library, as the code uses   *)
(* them.                                                                    *)

I32Max == 2147483647

I32Min == -2147483647 - 1

DigitChars == <<"0", "1", "2", "3", "4", "5", "6", "7", "8", "9">>

IsDigit(ch) == \E i \in 1..10 : DigitChars[i] = ch

DigitVal(ch) == (CHOOSE i \in 1..10 : DigitChars[i] = ch) - 1

IsWhitespace(ch) == ch \in {" ", "\t"}

\* The digits of str::parse::<i32>, most significant first, with the checked
\* multiply and add (subtract for a negative number) of from_str_radix.
RECURSIVE ParseDigits(_, _, _)
ParseDigits(s, acc, neg) ==
    IF s = <<>> THEN Some(acc)
    ELSE IF ~IsDigit(s[1]) THEN None
    ELSE LET d == DigitVal(s[1])
         IN IF neg
            THEN IF acc < (I32Min + d + 9) \div 10 THEN None
                 ELSE ParseDigits(Tail(s), acc * 10 - d, neg)
            ELSE IF acc > (I32Max - d) \div 10 THEN None
                 ELSE ParseDigits(Tail(s), acc * 10 + d, neg)

\* str::parse::<i32>: an optional sign, then at least one decimal digit.
ParseI32(s) ==
    LET signed == s # <<>> /\ s[1] \in {"+", "-"}
        body == IF signed THEN Tail(s) ELSE s
    IN IF body = <<>> THEN None
       ELSE ParseDigits(body, 0, s[1] = "-")

\* format!("{n}") of an i32: the decimal digits, after a minus sign for a
\* negative number.
RECURSIVE FmtNat(_)
FmtNat(n) ==
    IF n < 10 THEN <<DigitChars[n + 1]>>
    ELSE Append(FmtNat(n \div 10), DigitChars[(n % 10) + 1])

Fmt(n) ==
    IF n < 0
    THEN LET last == (10 - (n % 10)) % 10
             rest == -((n + last) \div 10)
         IN <<"-">> \o (IF rest = 0 THEN <<>> ELSE FmtNat(rest)) \o <<DigitChars[last + 1]>>
    ELSE FmtNat(n)

\* str::split_whitespace: the maximal runs of non-whitespace characters.
RECURSIVE SplitWs(_, _, _)
SplitWs(s, cur, acc) ==
    IF s = <<>> THEN (IF cur = <<>> THEN acc ELSE Append(acc, cur))
    ELSE IF IsWhitespace(s[1])
         THEN SplitWs(Tail(s), <<>>, IF cur = <<>> THEN acc ELSE Append(acc, cur))
         ELSE SplitWs(Tail(s), Append(cur, s[1]), acc)

SplitWhitespace(s) == SplitWs(s, <<>>, <<>>)

\* str::split('-'): the pieces between dashes, empty pieces kept.
RECURSIVE SplitOn(_, _, _, _)
SplitOn(s, ch, cur, acc) ==
    IF s = <<>> THEN Append(acc, cur)
    ELSE IF s[1] = ch THEN SplitOn(Tail(s), ch, <<>>, Append(acc, cur))
         ELSE SplitOn(Tail(s), ch, Append(cur, s[1]), acc)

SplitDash(s) == SplitOn(s, "-", <<>>, <<>>)

\* Path::join with a relative or absolute segment (PathBuf::push).
PathJoin(base, seg) ==
    IF seg # <<>> /\ seg[1] = "/" THEN seg
    ELSE IF base # <<>> /\ base[Len(base)] # "/" THEN base \o <<"/">> \o seg
    ELSE base \o seg

\* OsString::push: plain concatenation.
PathPush(base, seg) == base \o seg

\* The name the kernel resolves and Path's == compares: repeated separators
\* collapse and a trailing separator is dropped.
RECURSIVE Collapse(_, _)
Collapse(s, acc) ==
    IF s = <<>> THEN acc
    ELSE IF s[1] = "/" /\ acc # <<>> /\ acc[Len(acc)] = "/" THEN Collapse(Tail(s), acc)
    ELSE Collapse(Tail(s), Append(acc, s[1]))

Normalize(p) ==
    LET c == Collapse(p, <<>>)
    IN IF Len(c) > 1 /\ c[Len(c)] = "/" THEN SubSeq(c, 1, Len(c) - 1) ELSE c

\* A shift that rounds towards zero, as a division does: x / 256.
Shr8Truncating(x) == IF x < 0 THEN (x + 255) \div 256 ELSE x \div 256

\* The low 31 bits of an i32 as a natural number; the sign bit is x < 0.
Low31(x) == IF x < 0 THEN x - I32Min ELSE x

\* i32 >> 8: the bits move down by eight places and the sign bit is copied
\* into the nine places left free (-2^31 >> 8 = -2^23).
Shr8(x) == (Low31(x) \div 256) - (IF x < 0 THEN 8388608 ELSE 0)

\* i32 & 0xff: the low eight bits.
And255(x) == Low31(x) % 256

------------------------------------------------------------------------------
(* The functions of TtyDriver, over the files and nodes they read.          *)

RangeContains(r, x) == r.start <= x /\ x <= r.end

\* Getting either "3" or "3-10" and parsing a range from that.
parse_minor_range(tty_minor) ==
    LET minor_range == SplitDash(tty_minor)
    IN IF Len(minor_range) = 1
       THEN LET start == ParseI32(minor_range[1])
            IN IF IsSome(start)
               THEN Some([start |-> Get(start), end |-> Get(start)])
               ELSE None
       ELSE IF Len(minor_range) = 2
       THEN LET start == ParseI32(minor_range[1])
                end == ParseI32(minor_range[2])
            IN IF IsSome(start) /\ IsSome(end)
               THEN Some([start |-> Get(start), end |-> Get(end)])
               ELSE None
       ELSE None

\* The body of the loop of parse_tty_drivers: the record of one line, or None
\* when the line is skipped.
ParseDriverLine(line) ==
    LET parts == SplitWhitespace(line)
    IN IF Len(parts) < 4 THEN None
       ELSE LET major == ParseI32(parts[3])
                minor_range == parse_minor_range(parts[4])
            IN IF ~IsSome(major) THEN None
               ELSE IF ~IsSome(minor_range) THEN None
               ELSE Some([path |-> parts[2],
                          major |-> Get(major),
                          minor_range |-> Get(minor_range)])

\* A loop that stops at the first line it cannot parse (break for continue).
RECURSIVE ParseDriverLinesBreak(_, _)
ParseDriverLinesBreak(lines, drivers) ==
    IF lines = <<>> THEN drivers
    ELSE LET d == ParseDriverLine(lines[1])
         IN IF IsSome(d)
            THEN ParseDriverLinesBreak(Tail(lines), Append(drivers, Get(d)))
            ELSE drivers

\* The loop of parse_tty_drivers: the records are pushed in line order.
RECURSIVE ParseDriverLines(_, _)
ParseDriverLines(lines, drivers) ==
    IF lines = <<>> THEN drivers
    ELSE LET d == ParseDriverLine(lines[1])
         IN ParseDriverLines(Tail(lines),
                             IF IsSome(d) THEN Append(drivers, Get(d)) ELSE drivers)

\* parse_tty_drivers on the content of /proc/tty/drivers (None: unreadable).
parse_tty_drivers(file) ==
    IF ~IsSome(file) THEN <<>> ELSE ParseDriverLines(Get(file), <<>>)

\* The last element the closure accepts (rfind for find).
RECURSIVE MatchLast(_, _, _)
MatchLast(drivers, tty_major, tty_minor) ==
    IF drivers = <<>> THEN None
    ELSE LET d == drivers[Len(drivers)]
         IN IF d.major = tty_major /\ RangeContains(d.minor_range, tty_minor)
            THEN Some(d)
            ELSE MatchLast(SubSeq(drivers, 1, Len(drivers) - 1), tty_major, tty_minor)

\* match_drivers_to_tty_nr: Iterator::find returns the first element the
\* closure accepts.
RECURSIVE match_drivers_to_tty_nr(_, _, _)
match_drivers_to_tty_nr(drivers, tty_major, tty_minor) ==
    IF drivers = <<>> THEN None
    ELSE IF drivers[1].major = tty_major
            /\ RangeContains(drivers[1].minor_range, tty_minor)
         THEN Some(drivers[1])
         ELSE match_drivers_to_tty_nr(Tail(drivers), tty_major, tty_minor)

\* The decoding at the end of get_tty_nr_for_pid (MAJOR and MINOR of
\* kdev_t.h).
DecodeTtyNr(tty_nr) == [major |-> Shr8(tty_nr), minor |-> And255(tty_nr)]

\* format!("/proc/{pid}/stat")
StatPath(pid) ==
    <<"/", "p", "r", "o", "c", "/">> \o Fmt(pid) \o <<"/", "s", "t", "a", "t">>

DriversPath ==
    <<"/", "p", "r", "o", "c", "/", "t", "t", "y", "/",
      "d", "r", "i", "v", "e", "r", "s">>

\* std::fs::read_to_string of /proc/<pid>/stat.
ReadStat(pid) == IF pid \in DOMAIN procStat THEN procStat[pid] ELSE None

\* get_tty_nr_for_pid after the pid check: field 6 of the status record.
TtyNrOfStat(stat) ==
    IF ~IsSome(stat) THEN None
    ELSE LET fields == SplitWhitespace(Get(stat))
         IN IF Len(fields) < 7 THEN None
            ELSE LET tty_nr == ParseI32(fields[7])
                 IN IF ~IsSome(tty_nr) THEN None
                    ELSE Some(DecodeTtyNr(Get(tty_nr)))

\* get_tty_nr_for_pid.
get_tty_nr_for_pid(pid) == IF pid = -1 THEN None ELSE TtyNrOfStat(ReadStat(pid))

\* Path::metadata: the node the kernel finds under the name, if any.
Metadata(path) ==
    LET n == Normalize(path)
    IN IF n \in DOMAIN devNodes THEN devNodes[n] ELSE None

\* Path::exists
Exists(path) == IsSome(Metadata(path))

\* metadata.rdev() as i32: the low 32 bits of the u64, kept here as the i32
\* they spell; the high 32 bits are dropped.
RdevAsI32(rdev) == rdev.lo

\* A check that compares the minor only.
VerifyMinorOnly(path, tty_major, tty_minor) ==
    LET metadata == Metadata(path)
    IN IF IsSome(metadata)
       THEN And255(RdevAsI32(Get(metadata))) = tty_minor
       ELSE FALSE

\* verify_tty_path
verify_tty_path(path, tty_major, tty_minor) ==
    LET metadata == Metadata(path)
    IN IF IsSome(metadata)
       THEN LET rdev == RdevAsI32(Get(metadata))
                dev_major == Shr8(rdev)
                dev_minor == And255(rdev)
            IN dev_major = tty_major /\ dev_minor = tty_minor
       ELSE FALSE

\* A first guess that appends the number without the separator.
FirstGuessNoSeparator(path, tty_minor) == PathPush(path, Fmt(tty_minor))

\* The two guesses of guess_tty_path.
FirstGuess(path, tty_minor) == PathJoin(path, Fmt(tty_minor))

SecondGuess(path, tty_minor) == PathPush(path, Fmt(tty_minor))

\* guess_tty_path
guess_tty_path(path, tty_major, tty_minor) ==
    LET res == FirstGuess(path, tty_minor)
        second_try == SecondGuess(path, tty_minor)
    IN IF Exists(res) /\ verify_tty_path(res, tty_major, tty_minor) THEN Some(res)
       ELSE IF Exists(second_try) /\ verify_tty_path(second_try, tty_major, tty_minor)
            THEN Some(second_try)
       ELSE None

\* find_tty_for_pid as one function of the pid and the files.
find_tty_for_pid(pid) ==
    LET tty == get_tty_nr_for_pid(pid)
    IN IF ~IsSome(tty) THEN None
       ELSE LET drivers == parse_tty_drivers(driversFile)
                driver == match_drivers_to_tty_nr(drivers, Get(tty).major, Get(tty).minor)
            IN IF ~IsSome(driver) THEN None
               ELSE guess_tty_path(Get(driver).path, Get(tty).major, Get(tty).minor)

------------------------------------------------------------------------------
(* find_tty_for_pid as a sequence of steps, one per function it calls; a    *)
(* step that reads a file or a node appends the read to the call's log.     *)

CallIds == {"a", "b"}

NewCall(pid) ==
    [pid |-> pid, pc |-> "start", tty |-> None, drivers |-> <<>>,
     driver |-> None, result |-> None, log |-> <<>>]

IdleCall == [NewCall(0) EXCEPT !.pc = "idle"]

Read(op, path) == [op |-> op, path |-> path]

\* The reads of `res.exists() && verify_tty_path(&res, ..)`: the second
\* operand runs only when the first is true.
ProbeReads(res) ==
    IF Exists(res) THEN <<Read("exists", res), Read("metadata", res)>>
    ELSE <<Read("exists", res)>>

\* The registry is parsed before the `?` on the device number is taken.
GetTtyNrParsingFirst(c) ==
    /\ calls[c].pc = "start"
    /\ LET pid == calls[c].pid
           tty == get_tty_nr_for_pid(pid)
           log == (IF pid = -1 THEN calls[c].log
                   ELSE Append(calls[c].log, Read("read", StatPath(pid))))
                  \o <<Read("read", DriversPath)>>
       IN calls' = [calls EXCEPT ![c] =
              IF IsSome(tty)
              THEN [@ EXCEPT !.tty = tty, !.log = log,
                             !.drivers = parse_tty_drivers(driversFile), !.pc = "match"]
              ELSE [@ EXCEPT !.log = log, !.pc = "done"]]
    /\ UNCHANGED <<envVars, unitVars>>

\* The decoded device number is kept in one place that every call uses.
GetTtyNrShared(c) ==
    /\ calls[c].pc = "start"
    /\ LET pid == calls[c].pid
           tty == get_tty_nr_for_pid(pid)
           log == IF pid = -1 THEN calls[c].log
                  ELSE Append(calls[c].log, Read("read", StatPath(pid)))
       IN calls' = [d \in CallIds |->
              IF d = c
              THEN IF IsSome(tty)
                   THEN [calls[d] EXCEPT !.tty = tty, !.log = log, !.pc = "parse"]
                   ELSE [calls[d] EXCEPT !.log = log, !.pc = "done"]
              ELSE IF IsSome(tty) /\ IsSome(calls[d].tty)
                   THEN [calls[d] EXCEPT !.tty = tty]
                   ELSE calls[d]]
    /\ UNCHANGED <<envVars, unitVars>>

\* let (tty_major, tty_minor) = TtyDriver::get_tty_nr_for_pid(pid)?;
GetTtyNr(c) ==
    /\ calls[c].pc = "start"
    /\ LET pid == calls[c].pid
           tty == get_tty_nr_for_pid(pid)
           log == IF pid = -1 THEN calls[c].log
                  ELSE Append(calls[c].log, Read("read", StatPath(pid)))
       IN calls' = [calls EXCEPT ![c] =
              IF IsSome(tty)
              THEN [@ EXCEPT !.tty = tty, !.log = log, !.pc = "parse"]
              ELSE [@ EXCEPT !.log = log, !.pc = "done"]]
    /\ UNCHANGED <<envVars, unitVars>>

\* let drivers = TtyDriver::parse_tty_drivers();
ParseDrivers(c) ==
    /\ calls[c].pc = "parse"
    /\ calls' = [calls EXCEPT ![c] =
           [@ EXCEPT !.drivers = parse_tty_drivers(driversFile),
                     !.log = Append(@, Read("read", DriversPath)),
                     !.pc = "match"]]
    /\ UNCHANGED <<envVars, unitVars>>

\* let driver = TtyDriver::match_drivers_to_tty_nr(drivers, tty_major, tty_minor)?;
MatchDrivers(c) ==
    /\ calls[c].pc = "match"
    /\ LET tty == Get(calls[c].tty)
           driver == match_drivers_to_tty_nr(calls[c].drivers, tty.major, tty.minor)
       IN calls' = [calls EXCEPT ![c] =
              IF IsSome(driver)
              THEN [@ EXCEPT !.driver = driver, !.pc = "guess1"]
              ELSE [@ EXCEPT !.pc = "done"]]
    /\ UNCHANGED <<envVars, unitVars>>

\* A first guess that exists but fails the check ends the search.
GuessFirstGivingUp(c) ==
    /\ calls[c].pc = "guess1"
    /\ LET tty == Get(calls[c].tty)
           res == FirstGuess(Get(calls[c].driver).path, tty.minor)
           log == calls[c].log \o ProbeReads(res)
       IN calls' = [calls EXCEPT ![c] =
              IF Exists(res) /\ verify_tty_path(res, tty.major, tty.minor)
              THEN [@ EXCEPT !.result = Some(res), !.log = log, !.pc = "done"]
              ELSE IF Exists(res) THEN [@ EXCEPT !.log = log, !.pc = "done"]
              ELSE [@ EXCEPT !.log = log, !.pc = "guess2"]]
    /\ UNCHANGED <<envVars, unitVars>>

\* guess_tty_path, the guess separated by a slash.
GuessFirst(c) ==
    /\ calls[c].pc = "guess1"
    /\ LET tty == Get(calls[c].tty)
           res == FirstGuess(Get(calls[c].driver).path, tty.minor)
           log == calls[c].log \o ProbeReads(res)
       IN calls' = [calls EXCEPT ![c] =
              IF Exists(res) /\ verify_tty_path(res, tty.major, tty.minor)
              THEN [@ EXCEPT !.result = Some(res), !.log = log, !.pc = "done"]
              ELSE [@ EXCEPT !.log = log, !.pc = "guess2"]]
    /\ UNCHANGED <<envVars, unitVars>>

\* After both guesses failed, the guesses of the later matching drivers are
\* tried.
GuessSecondFallingBack(c) ==
    /\ calls[c].pc = "guess2"
    /\ LET tty == Get(calls[c].tty)
           res == SecondGuess(Get(calls[c].driver).path, tty.minor)
           log == calls[c].log \o ProbeReads(res)
           ds == calls[c].drivers
           later == {i \in 1..Len(ds) :
                        /\ ds[i].major = tty.major
                        /\ RangeContains(ds[i].minor_range, tty.minor)
                        /\ ds[i] # Get(calls[c].driver)
                        /\ IsSome(guess_tty_path(ds[i].path, tty.major, tty.minor))}
       IN calls' = [calls EXCEPT ![c] =
              IF Exists(res) /\ verify_tty_path(res, tty.major, tty.minor)
              THEN [@ EXCEPT !.result = Some(res), !.log = log, !.pc = "done"]
              ELSE IF later # {}
              THEN LET i == CHOOSE i \in later : \A j \in later : i <= j
                       found == guess_tty_path(ds[i].path, tty.major, tty.minor)
                   IN [@ EXCEPT !.result = found,
                                !.log = log \o ProbeReads(Get(found)), !.pc = "done"]
              ELSE [@ EXCEPT !.log = log, !.pc = "done"]]
    /\ UNCHANGED <<envVars, unitVars>>

\* guess_tty_path, the guess with the number appended; then "No luck".
GuessSecond(c) ==
    /\ calls[c].pc = "guess2"
    /\ LET tty == Get(calls[c].tty)
           res == SecondGuess(Get(calls[c].driver).path, tty.minor)
           log == calls[c].log \o ProbeReads(res)
       IN calls' = [calls EXCEPT ![c] =
              IF Exists(res) /\ verify_tty_path(res, tty.major, tty.minor)
              THEN [@ EXCEPT !.result = Some(res), !.log = log, !.pc = "done"]
              ELSE [@ EXCEPT !.log = log, !.pc = "done"]]
    /\ UNCHANGED <<envVars, unitVars>>

Next ==
    \E c \in CallIds :
        \/ GetTtyNr(c)
        \/ ParseDrivers(c)
        \/ MatchDrivers(c)
        \/ GuessFirst(c)
        \/ GuessSecond(c)

------------------------------------------------------------------------------
(* The files and nodes the checked runs start from.                         *)

\* The fields joined by single spaces.
RECURSIVE JoinSp(_)
JoinSp(fields) ==
    IF Len(fields) = 0 THEN <<>>
    ELSE IF Len(fields) = 1 THEN fields[1]
    ELSE fields[1] \o <<" ">> \o JoinSp(Tail(fields))

DevPts == <<"/", "d", "e", "v", "/", "p", "t", "s">>

DevTty == <<"/", "d", "e", "v", "/", "t", "t", "y">>

DevVc == <<"/", "d", "e", "v", "/", "v", "c", "/">>

\* pty_slave            /dev/pts      136 0-1048575 pty:slave
LnPts == JoinSp(<<<<"p", "t", "y">>, DevPts, Fmt(136), Fmt(0) \o <<"-">> \o Fmt(1048575), <<"p">>>>)

\* unknown              /dev/tty        4 1-63 console
LnTty == JoinSp(<<<<"u">>, DevTty, Fmt(4), Fmt(1) \o <<"-">> \o Fmt(63), <<"c">>>>)

\* A range over every minor of major 4, under a prefix that ends in a slash.
LnVc == JoinSp(<<<<"v">>, DevVc, Fmt(4), Fmt(0) \o <<"-">> \o Fmt(255), <<"c">>>>)

\* Three fields only.
LnShort == JoinSp(<<<<"s">>, DevTty, Fmt(4)>>)

\* The text of /proc/<pid>/stat with `comm` as its second field and `tok` as
\* the field after the process group and session: pid comm S ppid pgrp
\* session tty_nr tpgid.
StatLine(pid, comm, tok) ==
    JoinSp(<<Fmt(pid)>> \o comm \o <<<<"S">>, <<"0">>, Fmt(pid), Fmt(pid), tok, <<"-", "1">>>>)

CommSh == <<<<"(", "s", "h", ")">>>>

\* A process name with a blank in it: two whitespace-separated fields.
CommBlank == <<<<"(", "a">>, <<"b", ")">>>>

PtsNr == 136 * 256 + 3

TtyNr == 4 * 256 + 3

StatOptions(pid, toks) ==
    {None, Some(JoinSp(<<Fmt(pid)>> \o CommSh \o <<<<"S">>>>)),
     Some(StatLine(pid, CommBlank, Fmt(PtsNr)))}
    \cup {Some(StatLine(pid, CommSh, tok)) : tok \in toks}

\* All sequences over S of length at most n.
SeqsUpTo(S, n) == UNION {[1..k -> S] : k \in 0..n}

Rdev(hi, lo) == [hi |-> hi, lo |-> lo]

MaxLines == 2

InitPipeline ==
    /\ procStat \in [{1} -> StatOptions(1, {Fmt(PtsNr), Fmt(TtyNr), Fmt(0), <<"x">>})]
    /\ driversFile \in {None} \cup
           {Some(ls) : ls \in SeqsUpTo({LnPts, LnTty, LnVc, LnShort}, MaxLines)}
    /\ \E pts \in [{DevPts \o <<"/", "3">>, DevPts \o <<"3">>} ->
                      {None, Some(Rdev(0, PtsNr))}],
          tty \in [{DevTty \o <<"/", "3">>, DevTty \o <<"3">>} ->
                      {None, Some(Rdev(0, TtyNr)), Some(Rdev(0, PtsNr))}],
          vc \in [{DevVc \o <<"3">>} -> {None, Some(Rdev(1, TtyNr))}] :
          devNodes = pts @@ tty @@ vc
    /\ \E pid \in {-1, 1} : calls = [c \in CallIds |-> IF c = "a" THEN NewCall(pid) ELSE IdleCall]
    /\ uPc = "off" /\ uIn = <<>> /\ uOut = <<>>

Spec == InitPipeline /\ [][Next]_vars

------------------------------------------------------------------------------
(* Two calls whose steps interleave over the same files and nodes.          *)

InitConcurrent ==
    /\ \E nr \in [{1, 2} -> {0, PtsNr, TtyNr}] :
           procStat = [pid \in {1, 2} |->
               IF nr[pid] = 0 THEN None ELSE Some(StatLine(pid, CommSh, Fmt(nr[pid])))]
    /\ driversFile \in {None, Some(<<LnPts, LnTty>>), Some(<<LnVc, LnShort, LnTty>>)}
    /\ \E pts \in [{DevPts \o <<"/", "3">>} -> {None, Some(Rdev(0, PtsNr))}],
          tty \in [{DevTty \o <<"3">>} -> {None, Some(Rdev(0, TtyNr))}],
          vc \in [{DevVc \o <<"3">>} -> {None, Some(Rdev(0, TtyNr)), Some(Rdev(0, PtsNr))}] :
          devNodes = pts @@ tty @@ vc
    /\ calls \in [CallIds -> {NewCall(pid) : pid \in {-1, 1, 2}}]
    /\ uPc = "off" /\ uIn = <<>> /\ uOut = <<>>

SpecConcurrent == InitConcurrent /\ [][Next]_vars

------------------------------------------------------------------------------
(* Single functions applied to bounded sets of inputs.                      *)

NoCalls == [c \in CallIds |-> IdleCall]

TokDev == <<"/", "d">>

LineOf(major, minor) == JoinSp(<<<<"n">>, TokDev, major, minor, <<"t">>>>)

ParseLines ==
    {LnPts, LnTty, LnVc, LnShort,
     <<>>,                                                   \* an empty line
     JoinSp(<<<<"n">>, TokDev, Fmt(4), Fmt(7)>>),            \* four fields
     <<"\t", "n", " ", "\t">> \o TokDev \o <<" ", " ">> \o Fmt(4)
         \o <<"\t">> \o Fmt(5) \o <<" ">>,                   \* blanks and tabs
     LineOf(<<"z">>, Fmt(3)),
     LineOf(Fmt(4), <<"b", "a", "d">>),
     LineOf(Fmt(4), <<"1", "-", "2", "-", "3">>),
     LineOf(Fmt(4), <<"9", "-", "0">>),
     LineOf(Fmt(4), <<"-", "3">>),
     LineOf(Fmt(4), <<"1", "-", "-", "2">>),
     LineOf(Fmt(4), <<"1", "-">>),
     LineOf(Fmt(-4), Fmt(3)),
     LineOf(<<"+", "4">>, <<"+", "1", "-", "+", "3">>),
     LineOf(<<"2", "1", "4", "7", "4", "8", "3", "6", "4", "8">>, Fmt(3)),
     LineOf(Fmt(4), <<"0", "-", "2", "1", "4", "7", "4", "8", "3", "6", "4", "7">>)}

MaxParseLines == 2

InitParse ==
    /\ driversFile \in {None} \cup {Some(ls) : ls \in SeqsUpTo(ParseLines, MaxParseLines)}
    /\ procStat = <<>> /\ devNodes = <<>> /\ calls = NoCalls
    /\ uPc = "parse" /\ uIn = <<>> /\ uOut = <<>>

\* A call of parse_tty_drivers.
CallParse ==
    /\ uPc = "parse"
    /\ uOut' = parse_tty_drivers(driversFile)
    /\ uPc' = "done"
    /\ UNCHANGED <<envVars, calls, uIn>>

SpecParse == InitParse /\ [][CallParse]_vars

Driver(path, major, start, end) ==
    [path |-> path, major |-> major, minor_range |-> [start |-> start, end |-> end]]

MatchDrivers4 ==
    {Driver(path, major, r[1], r[2]) :
        path \in {DevTty, DevVc}, major \in {4, 5},
        r \in {<<1, 63>>, <<64, 95>>, <<0, 255>>, <<9, 0>>}}

MaxDrivers == 2

InitMatch ==
    /\ uIn \in [drivers : SeqsUpTo(MatchDrivers4, MaxDrivers),
                major : {4, 5}, minor : {0, 3, 70}]
    /\ procStat = <<>> /\ driversFile = None /\ devNodes = <<>> /\ calls = NoCalls
    /\ uPc = "match" /\ uOut = <<>>

\* A call of match_drivers_to_tty_nr.
CallMatch ==
    /\ uPc = "match"
    /\ uOut' = match_drivers_to_tty_nr(uIn.drivers, uIn.major, uIn.minor)
    /\ uPc' = "done"
    /\ UNCHANGED <<envVars, calls, uIn>>

SpecMatch == InitMatch /\ [][CallMatch]_vars

MaxPacked == 300

\* Packed values around zero, around the ends of i32 and around the first
\* and last value of a major.
PackedValues ==
    (-MaxPacked..MaxPacked)
    \cup {I32Min, I32Min + 1, I32Min + 255, I32Min + 256, I32Max, I32Max - 255,
          I32Max - 256, 1280, PtsNr, TtyNr, -65536, -65537, 65535, 65536}

InitDecode ==
    /\ uIn \in PackedValues
    /\ procStat = [pid \in {1} |-> Some(StatLine(1, CommSh, Fmt(uIn)))]
    /\ driversFile = None /\ devNodes = <<>> /\ calls = NoCalls
    /\ uPc = "decode" /\ uOut = <<>>

\* A call of get_tty_nr_for_pid on a status record whose field 6 spells uIn.
CallGetTtyNr ==
    /\ uPc = "decode"
    /\ uOut' = get_tty_nr_for_pid(1)
    /\ uPc' = "done"
    /\ UNCHANGED <<envVars, calls, uIn>>

SpecDecode == InitDecode /\ [][CallGetTtyNr]_vars

------------------------------------------------------------------------------
(* Properties of the single functions.                                      *)

\* What it means for a record to cover a device number.
Covers(d, major, minor) ==
    /\ d.major = major
    /\ d.minor_range.start <= minor
    /\ minor <= d.minor_range.end

Least(S) == CHOOSE i \in S : \A j \in S : i <= j

CoveringIn(drivers, major, minor) ==
    {i \in 1..Len(drivers) : Covers(drivers[i], major, minor)}

\* C4: match_drivers_to_tty_nr returns the record at the smallest index whose
\* major equals the target major and whose range contains the target minor,
\* and no result exactly when no record covers the target; for
\* [{4, 1..=63}, {4, 64..=95}] and (4, 70) it returns the second record.
C4_FirstCoveringRecord ==
    uPc = "done" =>
        LET I == CoveringIn(uIn.drivers, uIn.major, uIn.minor)
        IN /\ (I = {}) <=> (uOut = None)
           /\ I # {} => uOut = Some(uIn.drivers[Least(I)])
           /\ (/\ uIn.drivers = <<Driver(DevTty, 4, 1, 63), Driver(DevTty, 4, 64, 95)>>
               /\ uIn.major = 4 /\ uIn.minor = 70)
              => uOut = Some(Driver(DevTty, 4, 64, 95))

\* Two different records cover the target and the earlier one is returned.
C4_Witness ==
    /\ uPc = "done"
    /\ Len(uIn.drivers) = 2
    /\ CoveringIn(uIn.drivers, uIn.major, uIn.minor) = {1, 2}
    /\ uIn.drivers[1] # uIn.drivers[2]
    /\ uOut = Some(uIn.drivers[1])

\* C8: get_tty_nr_for_pid decodes a packed i32 p into major = p >> 8 (the
\* floor of p / 256) and minor = p & 0xff (p modulo 256), for negative values
\* and zero too: the minor is in 0..255, major * 256 + minor = p, no other
\* packed value decodes to the same pair, and 1280 decodes to (5, 0).
C8_Decoding ==
    uPc = "done" =>
        /\ IsSome(uOut)
        /\ LET d == Get(uOut)
           IN /\ d.minor \in 0..255
              /\ d.major * 256 + d.minor = uIn
              /\ d.major = uIn \div 256
              /\ d.minor = uIn % 256
              /\ \A q \in PackedValues : q # uIn => DecodeTtyNr(q) # d
              /\ uIn = 1280 => d = [major |-> 5, minor |-> 0]

\* A negative packed value has been decoded.
C8_Witness == uPc = "done" /\ uIn = -253 /\ uOut = Some([major |-> -1, minor |-> 3])

IsInteger(tok) == IsSome(ParseI32(tok))

DashesOf(tok) == {k \in 1..Len(tok) : tok[k] = "-"}

Before(tok, k) == SubSeq(tok, 1, k - 1)

After(tok, k) == SubSeq(tok, k + 1, Len(tok))

RangeOf(a, b) == [start |-> Get(ParseI32(a)), end |-> Get(ParseI32(b))]

\* "A single integer N, or two integers separated by one dash", an integer
\* being what field 2 may be: a sign is part of it.
MinorSpecSigned(tok) ==
    LET K == {k \in DashesOf(tok) : IsInteger(Before(tok, k)) /\ IsInteger(After(tok, k))}
    IN IF IsInteger(tok) THEN Some(RangeOf(tok, tok))
       ELSE IF K # {} THEN Some(RangeOf(Before(tok, Least(K)), After(tok, Least(K))))
       ELSE None

\* The field holds no dash and is an integer, or holds exactly one dash with
\* an integer on each side of it.
MinorSpecOneDash(tok) ==
    LET K == DashesOf(tok)
    IN IF K = {} /\ IsInteger(tok) THEN Some(RangeOf(tok, tok))
       ELSE IF Cardinality(K) = 1 /\ IsInteger(Before(tok, Least(K)))
               /\ IsInteger(After(tok, Least(K)))
            THEN Some(RangeOf(Before(tok, Least(K)), After(tok, Least(K))))
       ELSE None

\* The record a well-formed line contributes, under a reading MinorSpec of
\* field 3.
RecordOfLine(line, MinorSpec(_)) ==
    LET f == SplitWhitespace(line)
    IN IF Len(f) >= 4 /\ IsInteger(f[3]) /\ IsSome(MinorSpec(f[4]))
       THEN Some([path |-> f[2], major |-> Get(ParseI32(f[3])),
                  minor_range |-> Get(MinorSpec(f[4]))])
       ELSE None

\* out is the order-preserving subsequence of the records of the well-formed
\* lines of the file, and empty for an unreadable file.
IsRecordsOf(out, file, MinorSpec(_)) ==
    IF ~IsSome(file) THEN out = <<>>
    ELSE LET lines == Get(file)
             W == {i \in 1..Len(lines) : IsSome(RecordOfLine(lines[i], MinorSpec))}
         IN /\ Len(out) = Cardinality(W)
            /\ \A i \in W :
                   out[Cardinality({j \in W : j <= i})] = Get(RecordOfLine(lines[i], MinorSpec))

\* C6 as stated: a line contributes a record if and only if it has at least
\* 4 fields, field 2 is an integer and field 3 is a single integer or two
\* integers separated by one dash.
C6_Original == uPc = "done" => IsRecordsOf(uOut, driversFile, MinorSpecSigned)

\* C6 as amended: parse_tty_drivers returns exactly the order-preserving
\* subsequence of the lines with at least 4 fields, an i32 in field 2, and a
\* field 3 that holds no dash and is an i32, or holds exactly one dash with
\* an i32 on each side; every other line is skipped, and an unreadable
\* registry gives the empty list.
C6_Amended == uPc = "done" => IsRecordsOf(uOut, driversFile, MinorSpecOneDash)

\* A line whose field 3 is a negative integer is skipped and the line after
\* it still gives its record.
C6_Witness ==
    /\ uPc = "done"
    /\ driversFile = Some(<<LineOf(Fmt(4), Fmt(-3)), LnPts>>)
    /\ uOut = <<Driver(DevPts, 136, 0, 1048575)>>

\* C7: every record parse_tty_drivers produces has a non-empty minor range.
C7_NonEmptyRange ==
    uPc = "done" =>
        \A i \in 1..Len(uOut) : uOut[i].minor_range.start <= uOut[i].minor_range.end

------------------------------------------------------------------------------
(* Properties of a call of find_tty_for_pid, stated over the files and      *)
(* nodes it ran on.                                                         *)

Finished == {c \in CallIds : calls[c].pc = "done"}

\* The packed device number in field 6 of the status record of pid, if the
\* record is readable and the field is an integer.
PackedOf(pid) ==
    LET stat == ReadStat(pid)
    IN IF ~IsSome(stat) THEN None
       ELSE LET f == SplitWhitespace(Get(stat))
            IN IF Len(f) >= 7 THEN ParseI32(f[7]) ELSE None

MajorOf(packed) == packed \div 256

MinorOf(packed) == packed % 256

RegistryLines == IF IsSome(driversFile) THEN Get(driversFile) ELSE <<>>

RecordAt(i) == RecordOfLine(RegistryLines[i], MinorSpecOneDash)

\* The registry lines whose record covers the device number.
CoveringLines(major, minor) ==
    {i \in 1..Len(RegistryLines) :
        IsSome(RecordAt(i)) /\ Covers(Get(RecordAt(i)), major, minor)}

Slashed(prefix, minor) == prefix \o <<"/">> \o Fmt(minor)

Appended(prefix, minor) == prefix \o Fmt(minor)

\* Two names of the same path.
SamePath(p, q) == Normalize(p) = Normalize(q)

\* A node exists under the name and the low 32 bits of its st_rdev decode to
\* (major, minor).
NodeIs(path, major, minor) ==
    LET n == Normalize(path)
    IN /\ n \in DOMAIN devNodes
       /\ IsSome(devNodes[n])
       /\ Get(devNodes[n]).lo \div 256 = major
       /\ Get(devNodes[n]).lo % 256 = minor

Probes(c) == {i \in 1..Len(calls[c].log) : calls[c].log[i].op = "exists"}

\* C1: a path the call returns is one of the two candidates of a driver
\* record that covers the decoded device number of a readable status record,
\* and it exists with exactly that device number as its identity.
C1_Soundness ==
    \A c \in Finished :
        IsSome(calls[c].result) =>
            LET p == Get(calls[c].result)
                packed == PackedOf(calls[c].pid)
            IN /\ IsSome(packed)
               /\ LET major == MajorOf(Get(packed))
                      minor == MinorOf(Get(packed))
                  IN /\ \E i \in CoveringLines(major, minor) :
                            p \in {Slashed(Get(RecordAt(i)).path, minor),
                                   Appended(Get(RecordAt(i)).path, minor)}
                     /\ NodeIs(p, major, minor)

\* A call has returned a path.
C1_Witness == \E c \in Finished : IsSome(calls[c].result)

\* C2: when the status record gives (M, m), the first registry line covering
\* (M, m) has prefix P, and the node P/m exists with identity (M, m), the
\* call returns the path P/m.
C2_Completeness ==
    \A c \in Finished :
        LET packed == PackedOf(calls[c].pid)
        IN IsSome(packed) =>
               LET major == MajorOf(Get(packed))
                   minor == MinorOf(Get(packed))
                   I == CoveringLines(major, minor)
               IN (I # {} /\ NodeIs(Slashed(Get(RecordAt(Least(I))).path, minor), major, minor))
                  => /\ IsSome(calls[c].result)
                     /\ SamePath(Get(calls[c].result),
                                 Slashed(Get(RecordAt(Least(I))).path, minor))

\* The packed value of (136, 3), the pty_slave line and /dev/pts/3 with
\* identity (136, 3) give /dev/pts/3.
C2_Witness ==
    \E c \in Finished :
        /\ PackedOf(calls[c].pid) = Some(136 * 256 + 3)
        /\ RegistryLines # <<>> /\ RegistryLines[1] = LnPts
        /\ NodeIs(DevPts \o <<"/", "3">>, 136, 3)
        /\ calls[c].result = Some(DevPts \o <<"/", "3">>)

StageOf(c, e) ==
    IF e = Read("read", StatPath(calls[c].pid)) THEN 1
    ELSE IF e = Read("read", DriversPath) THEN 2
    ELSE 4

\* C3: the status record is read before the registry and the registry before
\* any candidate path, each file once; a call that gets no device number
\* reads no registry and probes nothing, and a call that finds no driver
\* probes nothing; both end without a result.
C3_Sequencing ==
    \A c \in CallIds :
        LET log == calls[c].log
            tty == get_tty_nr_for_pid(calls[c].pid)
            drivers == parse_tty_drivers(driversFile)
        IN /\ \A i, j \in 1..Len(log) :
                  i < j => /\ StageOf(c, log[i]) <= StageOf(c, log[j])
                           /\ StageOf(c, log[i]) < 4 => StageOf(c, log[i]) < StageOf(c, log[j])
           /\ \A i \in 1..Len(log) :
                  /\ StageOf(c, log[i]) = 2 => i > 1 /\ StageOf(c, log[1]) = 1
                  /\ StageOf(c, log[i]) = 4 => i > 2 /\ StageOf(c, log[2]) = 2
           /\ calls[c].pc \in {"guess1", "guess2"} \/ Probes(c) # {}
                  => /\ IsSome(tty)
                     /\ CoveringIn(drivers, Get(tty).major, Get(tty).minor) # {}
           /\ (c \in Finished /\ ~IsSome(tty))
                  => /\ calls[c].result = None
                     /\ \A i \in 1..Len(log) : StageOf(c, log[i]) = 1
           /\ (/\ c \in Finished /\ IsSome(tty)
               /\ CoveringIn(drivers, Get(tty).major, Get(tty).minor) = {})
                  => /\ calls[c].result = None
                     /\ log = <<Read("read", StatPath(calls[c].pid)), Read("read", DriversPath)>>

\* A call with a device number and an unreadable registry has ended after
\* reading the two files only.
C3_Witness ==
    \E c \in Finished :
        /\ IsSome(get_tty_nr_for_pid(calls[c].pid))
        /\ driversFile = None
        /\ Len(calls[c].log) = 2
        /\ calls[c].result = None

\* C5: the result of the resolution is the first of [prefix/minor,
\* prefix minor] that exists with the target identity, and none if neither
\* does; the second candidate is probed exactly when the first one does not
\* exist or fails the check.
C5_GuessOrder ==
    \A c \in Finished :
        IsSome(calls[c].driver) =>
            LET prefix == Get(calls[c].driver).path
                packed == Get(PackedOf(calls[c].pid))
                major == MajorOf(packed)
                minor == MinorOf(packed)
                first == Slashed(prefix, minor)
                second == Appended(prefix, minor)
                log == calls[c].log
            IN /\ IF NodeIs(first, major, minor)
                  THEN /\ IsSome(calls[c].result)
                       /\ SamePath(Get(calls[c].result), first)
                       /\ Cardinality(Probes(c)) = 1
                  ELSE /\ calls[c].result =
                              IF NodeIs(second, major, minor) THEN Some(second) ELSE None
                       /\ Cardinality(Probes(c)) = 2
               /\ \A i \in Probes(c) :
                      /\ i = Least(Probes(c)) => SamePath(log[i].path, first)
                      /\ i # Least(Probes(c)) => log[i].path = second

\* The first candidate exists with another identity and the second one is
\* returned.
C5_Witness ==
    \E c \in Finished :
        /\ IsSome(calls[c].driver) /\ IsSome(calls[c].tty)
        /\ Exists(Slashed(Get(calls[c].driver).path, Get(calls[c].tty).minor))
        /\ calls[c].result =
               Some(Appended(Get(calls[c].driver).path, Get(calls[c].tty).minor))
        /\ ~SamePath(Slashed(Get(calls[c].driver).path, Get(calls[c].tty).minor),
                     Get(calls[c].result))

\* C10: only the candidates of the first registry line covering the decoded
\* device number are probed, and when neither of them exists with the target
\* identity the call returns nothing, whatever the later lines cover.
C10_NoFallback ==
    \A c \in Finished :
        LET packed == PackedOf(calls[c].pid)
        IN IsSome(packed) =>
               LET major == MajorOf(Get(packed))
                   minor == MinorOf(Get(packed))
                   I == CoveringLines(major, minor)
               IN I # {} =>
                      LET prefix == Get(RecordAt(Least(I))).path
                      IN /\ \A i \in Probes(c) :
                                \/ SamePath(calls[c].log[i].path, Slashed(prefix, minor))
                                \/ SamePath(calls[c].log[i].path, Appended(prefix, minor))
                         /\ (/\ ~NodeIs(Slashed(prefix, minor), major, minor)
                             /\ ~NodeIs(Appended(prefix, minor), major, minor))
                            => calls[c].result = None

\* The call returned nothing although a later line covers the device number
\* and one of its candidates exists with the target identity.
C10_Witness ==
    \E c \in Finished :
        /\ calls[c].result = None
        /\ IsSome(PackedOf(calls[c].pid))
        /\ LET major == MajorOf(Get(PackedOf(calls[c].pid)))
               minor == MinorOf(Get(PackedOf(calls[c].pid)))
               I == CoveringLines(major, minor)
           IN \E j \in I :
                  /\ j > Least(I)
                  /\ \/ NodeIs(Slashed(Get(RecordAt(j)).path, minor), major, minor)
                     \/ NodeIs(Appended(Get(RecordAt(j)).path, minor), major, minor)

\* C9: with the steps of the calls interleaved in any order, every call
\* returns what find_tty_for_pid returns on its own for that pid; no step
\* changes a file or a node, and a step changes the locals of one call only.
C9_Independence ==
    /\ [](\A c \in Finished : calls[c].result = find_tty_for_pid(calls[c].pid))
    /\ [][/\ envVars' = envVars
          /\ \A c, d \in CallIds :
                 (calls'[c] # calls[c] /\ d # c) => calls'[d] = calls[d]]_vars

\* One call has returned a path while the other, for another process, is
\* between its two guesses.
C9_Witness ==
    /\ calls["a"].pc = "done" /\ IsSome(calls["a"].result)
    /\ calls["b"].pc = "guess2" /\ calls["b"].pid # calls["a"].pid

==============================================================================
